---- MODULE Spec2Model ----
(***************************************************************************)
(* Session document cache and conversation reconciliation of the           *)
(* VisualOCR pipeline.                                                     *)
(*                                                                         *)
(* Spec        the deployed pipeline: Pipeline.inlet of                    *)
(*             src/pipelines/pipeline.py driving the LangGraph nodes of    *)
(*             src/pipelines/ocr_utils/document_graph.py, for overlapping  *)
(*             requests (asyncio: a node body without await is atomic,     *)
(*             requests interleave between nodes).                         *)
(* SpecPaddle  one call of Pipeline._process_files_with_paddleocr          *)
(*             (pipeline.py:217-323) with the four arguments of its        *)
(*             signature, its inputs drawn from bounded sets.              *)
(* SpecRehydrate  one call of Pipeline._update_messages_with_files         *)
(*             (pipeline.py:354-466) on a history and a cache of the       *)
(*             entries the cache writers produce.                          *)
(* SpecOrder   the turn order through the graph's nodes, for the requests  *)
(*             of one session one after the other.                         *)
(* SpecDoc2Json  inlet and pipe of the Doc2JSON pipeline, src/auxil.py.    *)
(*                                                                         *)
(* A Python dict is a sequence of entries in insertion order; an absent    *)
(* key of a cache entry is a name missing from the entry's "keys".         *)
(***************************************************************************)
EXTENDS Integers, Sequences, FiniteSets, TLC

VARIABLES
    _file_cache,             \* pipeline.py:64   session -> {file_id: entry}
    _processed_files_cache,  \* pipeline.py:66   session -> set of file_id
    valves,                  \* pipeline.py:68   USING_PADDLEOCR, OPENWEBUI_API_KEY
    running,                 \* FALSE once on_shutdown has run
    req,                     \* the inlet calls: LangGraph state and position
    log,                     \* history: dispatches and cache writes per file
    pd,                      \* the call of _process_files_with_paddleocr
    rh,                      \* the call of _update_messages_with_files
    mo,                      \* the turn-order steps of the graph on a session's list
    dj                       \* the Doc2JSON pipeline's inlet and pipe (auxil.py)

pipelineVars == <<_file_cache, _processed_files_cache, valves, running, req, log>>
harnessVars == <<pd, rh, mo, dj>>
vars == <<_file_cache, _processed_files_cache, valves, running, req, log, pd, rh, mo, dj>>

---------------------------------------------------------------------------
(* Bounds *)

MaxRequests == 2     \* inlet calls per behaviour (they may overlap)
MaxTurns == 2        \* user turns in a message history
MaxPages == 1        \* pages a PDF renders to
MaxCachedPages == 2  \* pages of a rendered file in a cache that is replayed

---------------------------------------------------------------------------
(* Values *)

None == "None"                       \* Python None, or a key that is absent
Requests == 1..MaxRequests
FileIds == {"f1", "f2"}
PDF == "application/pdf"

Truthy(x) == x # None /\ x # ""
PyOr(a, b) == IF Truthy(a) THEN a ELSE b

\* Sequences over S of length lo..hi
SeqsUpTo(S, lo, hi) == UNION {[1..n -> S] : n \in lo..hi}

RECURSIVE SeqToSet(_)
SeqToSet(s) == IF s = <<>> THEN {} ELSE {Head(s)} \cup SeqToSet(Tail(s))

\* body["files"] items: id is f.get("id") or f["file"]["id"], content_type is
\* f["file"]["meta"]["content_type"]
FileName == [f \in FileIds \cup {None} |->
               IF f = "f1" THEN "a.pdf" ELSE IF f = "f2" THEN "b.pdf" ELSE "c.pdf"]
FileItem(id, ctype) == [id |-> id, content_type |-> ctype, name |-> FileName[id]]

\* The lists of PDFs a request attaches (file ids are names: a list is taken
\* in one order of its ids), one list of what detection passes over: a PDF
\* without id and an image, and one list that names a PDF twice
Rank == [f \in FileIds |-> IF f = "f1" THEN 1 ELSE 2]
Ordered(s) == \A i, j \in 1..Len(s) : i < j => Rank[s[i]] < Rank[s[j]]
PdfLists == {s \in SeqsUpTo(FileIds, 0, Cardinality(FileIds)) : Ordered(s)}
InputFiles ==
    {[i \in 1..Len(s) |-> FileItem(s[i], PDF)] : s \in PdfLists}
    \cup {<<FileItem(None, PDF), FileItem("f1", "image/png")>>,
          <<FileItem("f2", PDF), FileItem("f2", PDF)>>}

\* A history of n user turns with the assistant's answers between them; the
\* host sends ids for all user turns or for none
\* A Python str is the sequence of its pieces; a message's content is a str or a
\* list of items
StrContent(text) == [kind |-> "str", text |-> text, items |-> <<>>]
ListContent(items) == [kind |-> "list", text |-> <<>>, items |-> items]
TextItem(text) == [type |-> "text", text |-> text]
ImageItem(image) == [type |-> "image_url", image_url |-> image]

UserMsg(k, ids) == [role |-> "user",
                    id |-> IF ids THEN (IF k = 1 THEN "m1" ELSE "m2") ELSE None,
                    content |-> StrContent(<<"t">>)]
AssistantMsg == [role |-> "assistant", id |-> None, content |-> StrContent(<<"r">>)]
History(n, ids) == [i \in 1..(2 * n - 1) |->
                      IF i % 2 = 1 THEN UserMsg((i + 1) \div 2, ids) ELSE AssistantMsg]
Histories == {History(n, FALSE) : n \in 1..MaxTurns}

\* (metadata.user_id, user.id, metadata.chat_id)
Identities == {<<"u1", "u1", "c1">>, <<None, "u1", "c1">>, <<"u1", "u1", None>>,
               <<"u1", "u1", "c2">>}

\* metadata.message_id: the host names each request's turn, or sends none
RequestMessageId(r) == IF r = 1 THEN "m1" ELSE IF r = 2 THEN "m2" ELSE "m3"

Bodies(r) == {[files |-> fs, user_id |-> idn[1], user |-> idn[2], chat_id |-> idn[3],
               message_id |-> mid, messages |-> h] :
                 fs \in InputFiles, idn \in Identities,
                 mid \in {None, RequestMessageId(r)}, h \in Histories}

---------------------------------------------------------------------------
(* Cache entries and Python dicts *)

\* file_cache_session[file_id] = {...}: the keys the writer sets
Entry(file_id, keys, message_id, user_msg_index, filename, images, ocr_markdown) ==
    [file_id |-> file_id, keys |-> keys, message_id |-> message_id,
     user_msg_index |-> user_msg_index, filename |-> filename,
     images |-> images, ocr_markdown |-> ocr_markdown]

HasKey(d, k) == \E i \in 1..Len(d) : d[i].file_id = k
DictGet(d, k) == d[CHOOSE i \in 1..Len(d) : d[i].file_id = k]
DictKeys(d) == {d[i].file_id : i \in 1..Len(d)}
\* A variant that updates the entry a key has (d[k].update(e)): the keys the
\* new entry does not set stay as they were
DictMerge(d, e) ==
    IF HasKey(d, e.file_id)
    THEN [i \in 1..Len(d) |->
            IF d[i].file_id # e.file_id THEN d[i]
            ELSE [e EXCEPT !.keys = d[i].keys \cup e.keys,
                           !.images = IF "images" \in e.keys THEN e.images ELSE d[i].images,
                           !.ocr_markdown = IF "ocr_markdown" \in e.keys
                                            THEN e.ocr_markdown ELSE d[i].ocr_markdown]]
    ELSE Append(d, e)

\* d[k] = e: an existing key keeps its place, a new key goes last
DictPut(d, e) ==
    IF HasKey(d, e.file_id)
    THEN [i \in 1..Len(d) |-> IF d[i].file_id = e.file_id THEN e ELSE d[i]]
    ELSE Append(d, e)

RECURSIVE DictPutAll(_, _)
DictPutAll(d, es) == IF es = <<>> THEN d ELSE DictPutAll(DictPut(d, Head(es)), Tail(es))

PageImages(file_id, n) == [p \in 1..n |-> <<file_id, p>>]

Kind(e) == IF "ocr_markdown" \in e.keys THEN "document_text"
           ELSE IF "images" \in e.keys THEN "rendered_images" ELSE None

---------------------------------------------------------------------------
(* Pipeline._ensure_cache_initialized, pipeline.py:325-352.  The nested dict
   {user_id: {chat_id: x}} is a map from the pair; an existing session keeps
   its object. *)

\* A variant that gives the session a new object on every call
EnsureCacheReset(cache, key, empty) ==
    [k \in DOMAIN cache \cup {key} |-> IF k = key THEN empty ELSE cache[k]]

\* A variant that, for a chat it has not seen, starts the user's dict anew
\* (cache[user_id] = {chat_id: empty}) and so drops the user's other chats
EnsureUserReset(cache, key, empty) ==
    IF key \in DOMAIN cache THEN cache
    ELSE [k \in DOMAIN cache \cup {key} |->
            IF k # key /\ k[1] # key[1] THEN cache[k] ELSE empty]

_ensure_cache_initialized(cache, key, empty) ==
    IF key \in DOMAIN cache THEN cache ELSE cache @@ (key :> empty)

---------------------------------------------------------------------------
(* _detect_new_files_node, document_graph.py:34-62.  processed_file_ids is the
   session's set (never None: inlet passes it).  The message_order it appends
   to is a local list: inlet puts no "message_order" into the state. *)

RECURSIVE DetectScan(_, _, _)
DetectScan(pdf_valid, processed_file_ids, new_files) ==
    IF pdf_valid = <<>>
    THEN [new_files |-> new_files, processed_file_ids |-> processed_file_ids]
    ELSE LET f == Head(pdf_valid)
             file_id == f.id
         IN  IF Truthy(file_id) /\ file_id \notin processed_file_ids
             THEN DetectScan(Tail(pdf_valid), processed_file_ids \cup {file_id},
                             Append(new_files, [id |-> file_id, name |-> f.name]))
             ELSE DetectScan(Tail(pdf_valid), processed_file_ids, new_files)

\* A variant that reports the new files without registering their ids
DetectWithoutRegistering(files, processed_file_ids) ==
    [new_files |-> DetectScan(SelectSeq(files, LAMBDA f : f.content_type = PDF),
                              processed_file_ids, <<>>).new_files,
     processed_file_ids |-> processed_file_ids]

\* A variant without the content-type filter
DetectAnyContentType(files, processed_file_ids) ==
    DetectScan(files, processed_file_ids, <<>>)

\* A variant whose loop does not test that the file has an id
RECURSIVE ScanAnyId(_, _, _)
ScanAnyId(pdf_valid, processed_file_ids, new_files) ==
    IF pdf_valid = <<>>
    THEN [new_files |-> new_files, processed_file_ids |-> processed_file_ids]
    ELSE LET f == Head(pdf_valid)
         IN  IF f.id \notin processed_file_ids
             THEN ScanAnyId(Tail(pdf_valid), processed_file_ids \cup {f.id},
                            Append(new_files, [id |-> f.id, name |-> f.name]))
             ELSE ScanAnyId(Tail(pdf_valid), processed_file_ids, new_files)

DetectAnyId(files, processed_file_ids) ==
    ScanAnyId(SelectSeq(files, LAMBDA f : f.content_type = PDF), processed_file_ids, <<>>)

\* A variant that registers the ids after the loop, not inside it
DetectThenRegister(files, processed_file_ids) ==
    LET pdf_valid == SelectSeq(files, LAMBDA f : f.content_type = PDF)
        fresh == SelectSeq(pdf_valid,
                           LAMBDA f : Truthy(f.id) /\ f.id \notin processed_file_ids)
    IN  [new_files |-> [i \in 1..Len(fresh) |-> [id |-> fresh[i].id, name |-> fresh[i].name]],
         processed_file_ids |-> processed_file_ids \cup {fresh[i].id : i \in 1..Len(fresh)}]

_detect_new_files_node(files, processed_file_ids) ==
    LET pdf_valid == SelectSeq(files, LAMBDA f : f.content_type = PDF)
    IN  DetectScan(pdf_valid, processed_file_ids, <<>>)

\* _route_new_files, document_graph.py:71-79
_route_new_files(skip_processing, new_files, current_message_id) ==
    IF skip_processing THEN "update_messages"
    ELSE IF new_files = <<>> \/ ~Truthy(current_message_id) THEN "update_messages"
    ELSE "choose_processing_method"

\* A variant that routes every batch to the OCR engine
RouteToEngine(use_paddle_ocr) == "process_with_paddleocr"

\* _route_processing_method, document_graph.py:82-84
_route_processing_method(use_paddle_ocr) ==
    IF use_paddle_ocr THEN "process_with_paddleocr" ELSE "process_with_vlm"

---------------------------------------------------------------------------
(* process_pdf_to_base64_images, file_utils.py:114-176.  outcome[file_id] is
   what download_file and pdf_to_base64_images do for the file: an exception
   (ok = FALSE), caught and logged per file, or the rendered pages. *)

DownloadOutcomes == {[ok |-> FALSE, pages |-> 0]}
                    \cup {[ok |-> TRUE, pages |-> n] : n \in 0..MaxPages}

FileIdsOf(file_urls) == {file_urls[i].id : i \in 1..Len(file_urls)}

process_pdf_to_base64_images(file_urls, openwebui_token, outcome) ==
    IF file_urls = <<>> \/ ~Truthy(openwebui_token)
    THEN [f \in {} |-> <<>>]
    ELSE [f \in {g \in FileIdsOf(file_urls) : Truthy(g) /\ outcome[g].ok} |->
            PageImages(f, outcome[f].pages)]

\* files_images.get(file_id, [])
ImagesGet(files_images, file_id) ==
    IF file_id \in DOMAIN files_images THEN files_images[file_id] ELSE <<>>

\* The entries _process_vlm_node writes, document_graph.py:121-129
VlmEntries(new_files, current_message_id, files_images) ==
    [i \in 1..Len(new_files) |->
        Entry(new_files[i].id, {"message_id", "filename", "images"},
              current_message_id, 0, new_files[i].name,
              ImagesGet(files_images, new_files[i].id), "")]

---------------------------------------------------------------------------
(* The deployed pipeline: Pipeline.inlet and the graph of
   create_processing_graph, document_graph.py:220-276 *)

Sessions == {<<PyOr(i[1], i[2]), i[3]>> : i \in {j \in Identities :
                Truthy(PyOr(j[1], j[2])) /\ Truthy(j[3])}}

NoBody == [files |-> <<>>, user_id |-> None, user |-> None, chat_id |-> None,
           message_id |-> None, messages |-> <<>>]

NewRequest == [pc |-> "new", body |-> NoBody, session |-> <<None, None>>,
               user_id |-> None, skip_processing |-> FALSE, new_files |-> <<>>,
               use_paddle_ocr |-> FALSE, error |-> None,
               cached_at_inlet |-> 0,   \* len(file_cache_session), pipeline.py:196
               update_messages_runs |-> 0,   \* history: entries of the last node
               failed |-> {}]           \* history: the files whose download raised

Returned(r) == req[r].pc = "returned"
Raised(r) == req[r].pc = "raised"
Finished(r) == Returned(r) \/ Raised(r)
InFlight(r) == req[r].pc \notin {"new", "returned", "raised"}

Bump(count, ids) == [k \in DOMAIN count |-> IF k \in ids THEN count[k] + 1 ELSE count[k]]
LogKeys(session, new_files) == {<<session, f>> : f \in FileIdsOf(new_files)}

\* Pipeline.inlet, pipeline.py:162-214: up to the graph's ainvoke.  Calls are
\* numbered in the order they arrive.
Inlet(r) ==
    /\ running
    /\ req[r].pc = "new"
    /\ IF r = 1 THEN TRUE ELSE req[r - 1].pc # "new"
    /\ \E body \in Bodies(r) :
         LET user_id == PyOr(body.user_id, body.user)
             chat_id == body.chat_id
             key == <<user_id, chat_id>>
         IN  IF ~Truthy(user_id) \/ ~Truthy(chat_id)
             THEN /\ req' = [req EXCEPT ![r] = [@ EXCEPT !.pc = "returned", !.body = body]]
                  /\ UNCHANGED <<_file_cache, _processed_files_cache>>
             ELSE /\ _processed_files_cache' =
                        _ensure_cache_initialized(_processed_files_cache, key, {})
                  /\ _file_cache' = _ensure_cache_initialized(_file_cache, key, <<>>)
                  /\ req' = [req EXCEPT ![r] = [@ EXCEPT !.pc = "validate_input",
                                !.body = body, !.session = key, !.user_id = user_id,
                                !.cached_at_inlet = Len(_file_cache'[key])]]
    /\ UNCHANGED <<valves, running, log, harnessVars>>

\* _validate_input_node, document_graph.py:16-31.  The state holds no "user"
\* (inlet passes none), so user_id is metadata's or None.
ValidateInputNode(r) ==
    /\ running
    /\ req[r].pc = "validate_input"
    /\ LET user_id == PyOr(req[r].body.user_id, None)
       IN  req' = [req EXCEPT ![r] = [@ EXCEPT !.pc = "detect_new_files",
                     !.user_id = user_id,
                     !.skip_processing = ~Truthy(user_id) \/ ~Truthy(req[r].body.chat_id)]]
    /\ UNCHANGED <<_file_cache, _processed_files_cache, valves, running, log, harnessVars>>

\* _detect_new_files_node and the edge _route_new_files picks
DetectNewFilesNode(r) ==
    /\ running
    /\ req[r].pc = "detect_new_files"
    /\ LET s == req[r].session
           d == _detect_new_files_node(req[r].body.files, _processed_files_cache[s])
       IN  /\ _processed_files_cache' =
                  [_processed_files_cache EXCEPT ![s] = d.processed_file_ids]
           /\ req' = [req EXCEPT ![r] = [@ EXCEPT !.new_files = d.new_files,
                         !.pc = _route_new_files(req[r].skip_processing, d.new_files,
                                                 req[r].body.message_id)]]
    /\ UNCHANGED <<_file_cache, valves, running, log, harnessVars>>

\* _choose_method_node, document_graph.py:65-68, and _route_processing_method
ChooseMethodNode(r) ==
    /\ running
    /\ req[r].pc = "choose_processing_method"
    /\ req' = [req EXCEPT ![r] = [@ EXCEPT !.use_paddle_ocr = valves.USING_PADDLEOCR,
                  !.pc = _route_processing_method(valves.USING_PADDLEOCR)]]
    /\ UNCHANGED <<_file_cache, _processed_files_cache, valves, running, log, harnessVars>>

\* _process_paddleocr_node, document_graph.py:87-101.  Line 98 calls
\* _process_files_with_paddleocr(new_files, current_message_id,
\* file_cache_session): three arguments for the four parameters of
\* pipeline.py:217-223, a TypeError before the method's body runs.  Nothing
\* catches it: it leaves ainvoke and inlet (pipeline.py:214).
ProcessPaddleocrNode(r) ==
    /\ running
    /\ req[r].pc = "process_with_paddleocr"
    /\ req[r].new_files # <<>> /\ Truthy(req[r].body.message_id)
    /\ req' = [req EXCEPT ![r] = [@ EXCEPT !.pc = "raised", !.error = "TypeError"]]
    /\ log' = [log EXCEPT !.dispatched =
                  Bump(@, LogKeys(req[r].session, req[r].new_files))]
    /\ UNCHANGED <<_file_cache, _processed_files_cache, valves, running, harnessVars>>

\* _process_vlm_node, document_graph.py:104-133.  The writes follow the last
\* download without an await between them.
ProcessVlmNode(r) ==
    /\ running
    /\ req[r].pc = "process_with_vlm"
    /\ req[r].new_files # <<>> /\ Truthy(req[r].body.message_id)
    /\ \E outcome \in [FileIdsOf(req[r].new_files) -> DownloadOutcomes] :
         LET s == req[r].session
             files_images == process_pdf_to_base64_images(
                                req[r].new_files, valves.OPENWEBUI_API_KEY, outcome)
         IN  /\ _file_cache' = [_file_cache EXCEPT ![s] =
                    DictPutAll(@, VlmEntries(req[r].new_files, req[r].body.message_id,
                                             files_images))]
         /\ req' = [req EXCEPT ![r] = [@ EXCEPT !.pc = "cache_results",
                       !.failed = {f \in FileIdsOf(req[r].new_files) : ~outcome[f].ok}]]
    /\ log' = [dispatched |-> Bump(log.dispatched, LogKeys(req[r].session, req[r].new_files)),
               written |-> Bump(log.written, LogKeys(req[r].session, req[r].new_files)),
               writer |-> [k \in DOMAIN log.writer |->
                             IF k \in LogKeys(req[r].session, req[r].new_files)
                             THEN r ELSE log.writer[k]]]
    /\ UNCHANGED <<_processed_files_cache, valves, running, harnessVars>>

\* _cache_results_node, document_graph.py:136-154: it edits the list
\* state.get("message_order") or [], which no one else holds, and returns {}
CacheResultsNode(r) ==
    /\ running
    /\ req[r].pc = "cache_results"
    /\ req' = [req EXCEPT ![r] = [@ EXCEPT !.pc = "update_messages"]]
    /\ UNCHANGED <<_file_cache, _processed_files_cache, valves, running, log, harnessVars>>

\* _update_messages_node, document_graph.py:157-217.  Line 200 calls
\* _update_messages_with_files(messages, file_cache_session, message_order):
\* three arguments for the two parameters of pipeline.py:354, a TypeError.
\* body["messages"] is not assigned and the exception leaves inlet.
UpdateMessagesNode(r) ==
    /\ running
    /\ req[r].pc = "update_messages"
    /\ req' = [req EXCEPT ![r] = [@ EXCEPT !.pc = "raised", !.error = "TypeError",
                  !.update_messages_runs = req[r].update_messages_runs + 1]]
    /\ UNCHANGED <<_file_cache, _processed_files_cache, valves, running, log, harnessVars>>

\* Pipeline.on_shutdown, pipeline.py:100-108.  The host runs it when the server
\* stops, after the requests it was serving have ended.
OnShutdown ==
    /\ running
    /\ \A r \in Requests : ~InFlight(r)
    /\ running' = FALSE
    /\ _file_cache' = [k \in {} |-> <<>>]
    /\ _processed_files_cache' = [k \in {} |-> {}]
    /\ UNCHANGED <<valves, req, log, harnessVars>>

NoCall == [pc |-> "idle"]

\* Per (session, file_id): the times an extraction method was handed the file,
\* the times an artifact was written for it, and the request that wrote last
NoLog == [dispatched |-> [k \in Sessions \X FileIds |-> 0],
          written |-> [k \in Sessions \X FileIds |-> 0],
          writer |-> [k \in Sessions \X FileIds |-> 0]]

Init ==
    /\ _file_cache = [k \in {} |-> <<>>]
    /\ _processed_files_cache = [k \in {} |-> {}]
    /\ valves \in [USING_PADDLEOCR : BOOLEAN, OPENWEBUI_API_KEY : {"key"}]
    /\ running = TRUE
    /\ req = [r \in Requests |-> NewRequest]
    /\ log = NoLog
    /\ pd = NoCall /\ rh = NoCall /\ mo = NoCall /\ dj = NoCall

Next ==
    \/ \E r \in Requests : Inlet(r)
    \/ \E r \in Requests : ValidateInputNode(r)
    \/ \E r \in Requests : DetectNewFilesNode(r)
    \/ \E r \in Requests : ChooseMethodNode(r)
    \/ \E r \in Requests : ProcessPaddleocrNode(r)
    \/ \E r \in Requests : ProcessVlmNode(r)
    \/ \E r \in Requests : CacheResultsNode(r)
    \/ \E r \in Requests : UpdateMessagesNode(r)
    \/ OnShutdown

Spec == Init /\ [][Next]_vars

---------------------------------------------------------------------------
(* Pipeline._process_files_with_paddleocr, pipeline.py:217-323, called as its
   signature asks: (new_files, current_message_id, current_user_msg_index,
   file_cache_session).  new_files is what _detect_new_files_node returns: not
   empty (document_graph.py:92) and without a repeated id. *)

NewFileLists == {[i \in 1..Len(s) |-> [id |-> s[i], name |-> FileName[s[i]]]] :
                   s \in PdfLists \ {<<>>}}

PaddleCall(new_files, current_message_id, current_user_msg_index) ==
    [pc |-> "download", new_files |-> new_files,
     current_message_id |-> current_message_id,
     current_user_msg_index |-> current_user_msg_index,
     file_cache_session |-> <<>>,
     paths |-> <<>>,          \* download_pdfs_to_temp_paths' list
     temp_paths |-> <<>>,     \* the method's list, set when the download returns
     disk |-> {},             \* the temporary files that exist
     ocr |-> FALSE,           \* a PaddleOCRVL object is held
     primary_raised |-> FALSE, fallback_calls |-> 0, ocr_writes |-> 0,
     fallback_rendered |-> {}]   \* history: the keys of the fallback's files_images

\* file_cache_session[file_id] = {...ocr_markdown}, pipeline.py:274-279
OcrEntry(file_meta, current_message_id, current_user_msg_index, ocr_markdown) ==
    Entry(file_meta.id, {"message_id", "user_msg_index", "filename", "ocr_markdown"},
          current_message_id, current_user_msg_index, file_meta.name, <<>>, ocr_markdown)

\* A variant that writes only the files the fallback rendered
RenderedEntries(new_files, current_message_id, current_user_msg_index, files_images) ==
    LET kept == SelectSeq(new_files, LAMBDA f : f.id \in DOMAIN files_images)
    IN  [i \in 1..Len(kept) |->
            Entry(kept[i].id, {"message_id", "user_msg_index", "filename", "images"},
                  current_message_id, current_user_msg_index, kept[i].name,
                  files_images[kept[i].id], "")]

\* A variant whose entries carry no anchor
UnanchoredEntries(new_files, current_message_id, current_user_msg_index, files_images) ==
    [i \in 1..Len(new_files) |->
        Entry(new_files[i].id, {"filename", "images"}, None, 0, new_files[i].name,
              ImagesGet(files_images, new_files[i].id), "")]

\* The fallback's writes, pipeline.py:296-305: one entry for every file of
\* new_files, with the images of the file or []
FallbackEntries(new_files, current_message_id, current_user_msg_index, files_images) ==
    [i \in 1..Len(new_files) |->
        Entry(new_files[i].id, {"message_id", "user_msg_index", "filename", "images"},
              current_message_id, current_user_msg_index, new_files[i].name,
              ImagesGet(files_images, new_files[i].id), "")]

\* One iteration of download_pdfs_to_temp_paths, file_utils.py:224-263 (an await
\* each), entered from pipeline.py:240-246
DownloadPdfsToTempPaths ==
    /\ pd.pc = "download"
    /\ IF ~Truthy(valves.OPENWEBUI_API_KEY)
       THEN \* returns []: "No temp paths after download", pipeline.py:245-246
            pd' = [pd EXCEPT !.pc = "fallback", !.primary_raised = TRUE]
       ELSE \E ok \in BOOLEAN :
              LET i == Len(pd.paths) + 1
                  path == <<"tmp", pd.new_files[i].id>>
              IN  IF ok
                  THEN pd' = [pd EXCEPT !.paths = Append(@, path),
                                 !.disk = @ \cup {path},
                                 !.temp_paths = IF i = Len(pd.new_files)
                                                THEN Append(pd.paths, path) ELSE @,
                                 !.pc = IF i = Len(pd.new_files) THEN "ocr" ELSE @]
                  ELSE \* file_utils.py:257-261: unlink what was saved, raise
                       pd' = [pd EXCEPT !.disk = @ \ SeqToSet(pd.paths),
                                 !.pc = "fallback", !.primary_raised = TRUE]
    /\ UNCHANGED <<pipelineVars, rh, mo, dj>>

\* What ocr.predict and the markdown conversion give for one file
PredictOutcomes == {"raises", "text", "empty"}
FileMarkdown == [f \in FileIds |-> IF f = "f1" THEN "md1" ELSE "md2"]
Markdown(f, o) == IF o = "text" THEN FileMarkdown[f] ELSE ""

\* The files predicted before the first that raises
RECURSIVE PredictedPrefix(_, _)
PredictedPrefix(new_files, outcome) ==
    IF new_files = <<>> \/ outcome[Head(new_files).id] = "raises" THEN <<>>
    ELSE <<Head(new_files)>> \o PredictedPrefix(Tail(new_files), outcome)

\* PaddleOCRVL(...) and the loop over zip(new_files, temp_paths),
\* pipeline.py:247-283: no await, so one step
PaddleOcrPredict ==
    /\ pd.pc = "ocr"
    /\ \E constructed \in BOOLEAN, outcome \in [FileIdsOf(pd.new_files) -> PredictOutcomes] :
         IF ~constructed
         THEN pd' = [pd EXCEPT !.pc = "fallback", !.primary_raised = TRUE]
         ELSE LET done == PredictedPrefix(pd.new_files, outcome)
                  entries == [i \in 1..Len(done) |->
                                OcrEntry(done[i], pd.current_message_id,
                                         pd.current_user_msg_index,
                                         Markdown(done[i].id, outcome[done[i].id]))]
                  failed == Len(done) < Len(pd.new_files)
              IN  pd' = [pd EXCEPT !.ocr = TRUE,
                            !.file_cache_session = DictPutAll(@, entries),
                            !.ocr_writes = Len(done),
                            !.primary_raised = failed,
                            !.pc = IF failed THEN "fallback" ELSE "finally"]
    /\ UNCHANGED <<pipelineVars, rh, mo, dj>>

\* The except branch, pipeline.py:284-308.  process_pdf_to_base64_images catches
\* every per-file exception, so the branch's own except (309-311) is not taken.
PaddleFallback ==
    /\ pd.pc = "fallback"
    /\ \E outcome \in [FileIdsOf(pd.new_files) -> DownloadOutcomes] :
         LET files_images == process_pdf_to_base64_images(
                                pd.new_files, valves.OPENWEBUI_API_KEY, outcome)
         IN  pd' = [pd EXCEPT !.file_cache_session =
                        DictPutAll(@, FallbackEntries(pd.new_files, pd.current_message_id,
                                       pd.current_user_msg_index, files_images)),
                        !.fallback_calls = @ + 1,
                        !.fallback_rendered = DOMAIN files_images,
                        !.pc = "finally"]
    /\ UNCHANGED <<pipelineVars, rh, mo, dj>>

\* The finally branch, pipeline.py:312-323
PaddleFinally ==
    /\ pd.pc = "finally"
    /\ pd' = [pd EXCEPT !.ocr = FALSE, !.disk = @ \ SeqToSet(pd.temp_paths),
                 !.pc = "returned"]
    /\ UNCHANGED <<pipelineVars, rh, mo, dj>>

InitPaddle ==
    /\ _file_cache = [k \in {} |-> <<>>]
    /\ _processed_files_cache = [k \in {} |-> {}]
    /\ valves \in [USING_PADDLEOCR : {TRUE}, OPENWEBUI_API_KEY : {"", "key"}]
    /\ running = TRUE
    /\ req = [r \in Requests |-> NewRequest]
    /\ log = NoLog
    /\ pd \in {PaddleCall(nf, mid, idx) :
                 nf \in NewFileLists, mid \in {"m1", "m2"}, idx \in 0..(MaxTurns - 1)}
    /\ rh = NoCall /\ mo = NoCall /\ dj = NoCall

NextPaddle ==
    \/ DownloadPdfsToTempPaths
    \/ PaddleOcrPredict
    \/ PaddleFallback
    \/ PaddleFinally

SpecPaddle == InitPaddle /\ [][NextPaddle]_vars

---------------------------------------------------------------------------
(* Pipeline._update_messages_with_files, pipeline.py:354-466, called as its
   signature asks: (messages, file_cache).  A Python str is the sequence of its
   pieces; LABEL stands for the literal the code searches for (pipeline.py:405)
   and writes, followed by a space, in front of a file name (pipeline.py:430,
   440, 452). *)

LABEL == "Imya fayla:"
SP == " "
NL == "\n"
Whitespace == {SP, NL}

\* str.strip()
RECURSIVE LStrip(_)
LStrip(text) == IF text # <<>> /\ Head(text) \in Whitespace THEN LStrip(Tail(text)) ELSE text
RECURSIVE RStrip(_)
RStrip(text) == IF text # <<>> /\ text[Len(text)] \in Whitespace
                THEN RStrip(SubSeq(text, 1, Len(text) - 1)) ELSE text
Strip(text) == RStrip(LStrip(text))

\* sep.join(parts)
RECURSIVE Join(_, _)
Join(sep, parts) ==
    IF parts = <<>> THEN <<>>
    ELSE IF Len(parts) = 1 THEN Head(parts)
    ELSE Head(parts) \o sep \o Join(sep, Tail(parts))

\* text.split(sep) for a separator of one piece
RECURSIVE Split(_, _)
Split(text, sep) ==
    IF text = <<>> THEN << <<>> >>
    ELSE LET rest == Split(Tail(text), sep)
         IN  IF Head(text) = sep THEN << <<>> >> \o rest
             ELSE << <<Head(text)>> \o Head(rest) >> \o Tail(rest)

Contains(text, piece) == \E i \in 1..Len(text) : text[i] = piece
Last(s) == s[Len(s)]

\* The file names a text already records, pipeline.py:405-410
ExistingFileNames(text) ==
    IF ~Contains(text, LABEL) THEN {}
    ELSE LET lines == Split(text, NL)
         IN  {Strip(Last(Split(lines[i], LABEL))) :
                 i \in {j \in 1..Len(lines) : Contains(lines[j], LABEL)}} \ {<<>>}

\* The split of a user message's content, pipeline.py:390-414
TextParts(content) ==
    LET texts == SelectSeq(content.items, LAMBDA item : item.type = "text")
    IN  [i \in 1..Len(texts) |-> texts[i].text]
UserText(content) ==
    IF content.kind = "str" THEN Strip(content.text)
    ELSE Strip(Join(<<NL>>, TextParts(content)))
ExistingImages(content) ==
    IF content.kind = "str" THEN <<>>
    ELSE SelectSeq(content.items, LAMBDA item : item.type = "image_url")
RecordedNames(content) ==
    IF content.kind = "str" THEN {}
    ELSE UNION {ExistingFileNames(TextParts(content)[i]) : i \in 1..Len(TextParts(content))}

\* A variant that gives every user turn all the entries of the cache
AllFiles(file_cache, user_message_index) == file_cache

\* files_by_index.get(user_message_index, []), pipeline.py:367-379 and 421
FilesByIndex(file_cache, user_message_index) ==
    SelectSeq(file_cache, LAMBDA e : e.user_msg_index = user_message_index)

\* The document block of a turn, pipeline.py:425-430
DocBlock(ocr_parts) ==
    Join(<<NL, NL>>, [i \in 1..Len(ocr_parts) |->
            <<LABEL, SP, ocr_parts[i].filename, NL, NL, ocr_parts[i].ocr_markdown>>])

\* new_content.extend(images): the cache keeps the pages, a block wraps one
ImageBlocksOf(images) == [i \in 1..Len(images) |-> ImageItem(images[i])]

\* A variant of the loop that labels every file, whatever names are there
RECURSIVE LabelledBlocks(_)
LabelledBlocks(files) ==
    IF files = <<>> THEN <<>>
    ELSE (IF Head(files).images = <<>> THEN <<>>
          ELSE <<TextItem(<<LABEL, SP, Head(files).filename>>)>>
               \o ImageBlocksOf(Head(files).images))
         \o LabelledBlocks(Tail(files))

AlwaysLabelled(files, existing_file_names) == LabelledBlocks(files)

\* The loop over the turn's files that have images, pipeline.py:434-442 and
\* 446-454: a label unless the name is already there, then the images
RECURSIVE FileImageBlocks(_, _)
FileImageBlocks(files, existing_file_names) ==
    IF files = <<>> THEN <<>>
    ELSE LET file_info == Head(files)
             filename == <<file_info.filename>>
         IN  IF file_info.images = <<>>
             THEN FileImageBlocks(Tail(files), existing_file_names)
             ELSE (IF filename \in existing_file_names THEN <<>>
                   ELSE <<TextItem(<<LABEL, SP, file_info.filename>>)>>)
                  \o ImageBlocksOf(file_info.images)
                  \o FileImageBlocks(Tail(files), existing_file_names \cup {filename})

\* A variant that puts the message's own images in front of the cached pages
ImagesFirstContent(content, files_for_this_message) ==
    (IF UserText(content) # <<>> THEN <<TextItem(UserText(content))>> ELSE <<>>)
    \o ExistingImages(content)
    \o FileImageBlocks(files_for_this_message, RecordedNames(content))

\* new_content of one user message, pipeline.py:416-457
NewContent(content, files_for_this_message) ==
    LET user_text == UserText(content)
        existing_images == ExistingImages(content)
        existing_file_names == RecordedNames(content)
        ocr_parts == SelectSeq(files_for_this_message, LAMBDA f : Truthy(f.ocr_markdown))
        has_images_from_cache == \E i \in 1..Len(files_for_this_message) :
                                    files_for_this_message[i].images # <<>>
        has_any_images == has_images_from_cache \/ existing_images # <<>>
        text_block == IF user_text # <<>> THEN <<TextItem(user_text)>> ELSE <<>>
    IN  IF ocr_parts # <<>>
        THEN text_block \o <<TextItem(DocBlock(ocr_parts))>>
             \o FileImageBlocks(files_for_this_message,
                    existing_file_names
                    \cup {<<ocr_parts[i].filename>> : i \in 1..Len(ocr_parts)})
             \o existing_images
        ELSE IF has_any_images
        THEN text_block \o FileImageBlocks(files_for_this_message, existing_file_names)
             \o existing_images
        ELSE text_block \o existing_images

\* A variant of the loop that keeps the user messages only
RECURSIVE UsersOnlyLoop(_, _, _)
UsersOnlyLoop(messages, file_cache, user_message_index) ==
    IF messages = <<>> THEN <<>>
    ELSE LET msg == Head(messages)
         IN  IF msg.role # "user"
             THEN UsersOnlyLoop(Tail(messages), file_cache, user_message_index)
             ELSE <<[msg EXCEPT !.content = ListContent(
                        NewContent(msg.content,
                                   FilesByIndex(file_cache, user_message_index)))]>>
                  \o UsersOnlyLoop(Tail(messages), file_cache, user_message_index + 1)

\* The loop over messages, pipeline.py:383-466
RECURSIVE UpdateLoop(_, _, _)
UpdateLoop(messages, file_cache, user_message_index) ==
    IF messages = <<>> THEN <<>>
    ELSE LET msg == Head(messages)
         IN  IF msg.role # "user"
             THEN <<msg>> \o UpdateLoop(Tail(messages), file_cache, user_message_index)
             ELSE <<[msg EXCEPT !.content = ListContent(
                        NewContent(msg.content,
                                   FilesByIndex(file_cache, user_message_index)))]>>
                  \o UpdateLoop(Tail(messages), file_cache, user_message_index + 1)

\* A variant that writes the new content into the messages it was given
UpdateInPlace(messages, file_cache) ==
    LET updated == UpdateLoop(messages, file_cache, 0)
    IN  [error |-> None, updated_messages |-> updated,
         messages |-> updated, file_cache |-> file_cache]

\* The call: what it raises or returns, and its arguments as it leaves them.
\* file_data["user_msg_index"] (pipeline.py:369) raises KeyError for an entry
\* without the key, before any message is looked at.
_update_messages_with_files(messages, file_cache) ==
    IF \E i \in 1..Len(file_cache) : "user_msg_index" \notin file_cache[i].keys
    THEN [error |-> "KeyError", updated_messages |-> <<>>,
          messages |-> messages, file_cache |-> file_cache]
    ELSE [error |-> None, updated_messages |-> UpdateLoop(messages, file_cache, 0),
          messages |-> messages, file_cache |-> file_cache]

\* The histories the call is given: every user turn a str or a list of items
UserContents ==
    {StrContent(<<"t">>), StrContent(<<SP>>),
     ListContent(<<TextItem(<<"t">>)>>),
     ListContent(<<ImageItem(<<"inline", 1>>)>>),
     ListContent(<<TextItem(<<"t", NL, LABEL, SP, "a.pdf">>), ImageItem(<<"inline", 1>>)>>),
     StrContent(<<"t", NL, LABEL, SP, "a.pdf">>)}

HistoryOf(contents) ==
    [i \in 1..(2 * Len(contents) - 1) |->
        IF i % 2 = 1 THEN [role |-> "user", id |-> None, content |-> contents[(i + 1) \div 2]]
        ELSE AssistantMsg]
\* The histories of a host that sends no message ids, and the plain histories
\* of a host that sends the id of every user turn
RehydrateHistories == {HistoryOf(cs) : cs \in SeqsUpTo(UserContents, 1, MaxTurns)}
                      \cup {History(n, TRUE) : n \in 1..MaxTurns}

\* The entries a session cache can hold for one file: written by the OCR loop,
\* by its fallback, or by _process_vlm_node.  The anchor of an entry may lie
\* beyond the user turns of the history that is replayed.
EntriesFor(f) ==
    LET file_meta == [id |-> f, name |-> FileName[f]]
        rendered == {[g \in {f} |-> PageImages(f, n)] : n \in 1..MaxCachedPages}
                    \cup {[g \in {} |-> <<>>]}
    IN  {OcrEntry(file_meta, "m1", idx, md) :
            idx \in 0..MaxTurns, md \in {FileMarkdown[f], ""}}
        \cup {FallbackEntries(<<file_meta>>, "m1", idx, fi)[1] :
                idx \in 0..MaxTurns, fi \in rendered}
        \cup {VlmEntries(<<file_meta>>, "m1", fi)[1] : fi \in rendered}

RehydrateCaches ==
    {<<>>} \cup {<<e>> : e \in EntriesFor("f1")}
    \cup {<<e1, e2>> : e1 \in EntriesFor("f1"), e2 \in EntriesFor("f2")}

RehydrateCall(messages, file_cache) ==
    [pc |-> "call", messages |-> messages, file_cache |-> file_cache,
     updated_messages |-> <<>>, error |-> None]

UpdateMessagesWithFiles ==
    /\ rh.pc = "call"
    /\ LET result == _update_messages_with_files(rh.messages, rh.file_cache)
       IN  rh' = [pc |-> IF result.error = None THEN "returned" ELSE "raised",
                  messages |-> result.messages, file_cache |-> result.file_cache,
                  updated_messages |-> result.updated_messages,
                  error |-> result.error]
    /\ UNCHANGED <<pipelineVars, pd, mo, dj>>

InitRehydrate ==
    /\ _file_cache = [k \in {} |-> <<>>]
    /\ _processed_files_cache = [k \in {} |-> {}]
    /\ valves \in [USING_PADDLEOCR : {TRUE}, OPENWEBUI_API_KEY : {"key"}]
    /\ running = TRUE
    /\ req = [r \in Requests |-> NewRequest]
    /\ log = NoLog
    /\ rh \in {RehydrateCall(h, c) : h \in RehydrateHistories, c \in RehydrateCaches}
    /\ pd = NoCall /\ mo = NoCall /\ dj = NoCall

NextRehydrate == UpdateMessagesWithFiles

SpecRehydrate == InitRehydrate /\ [][NextRehydrate]_vars

---------------------------------------------------------------------------
(* The turn order through the graph, for the requests of one session one after
   the other.  inlet's initial state has no "message_order" (pipeline.py:
   200-212) and no node before the last returns one, so each node's
   state.get("message_order") or [] is a new empty list.  The order of the
   session is what _update_messages_node computes (document_graph.py:196) and
   returns (217); nothing stores it for the next request. *)

\* The ids the user turns of a history carry: some, all or none
TurnIds == UNION {[1..n -> {None, "m1", "m2"}] : n \in 1..MaxTurns}

\* order_from_messages, document_graph.py:147 and 176
order_from_messages(turn_ids) == SelectSeq(turn_ids, Truthy)

\* list.append(x) unless x is in the list
AppendNew(message_order, x) ==
    IF x \in SeqToSet(message_order) THEN message_order ELSE Append(message_order, x)

\* document_graph.py:39 and 58-60
DetectOrder(state_message_order, new_files, current_message_id) ==
    IF new_files /\ Truthy(current_message_id)
    THEN AppendNew(state_message_order, current_message_id) ELSE state_message_order

\* document_graph.py:139-152
CacheResultsOrder(state_message_order, turn_ids, current_message_id) ==
    LET message_order == IF Truthy(current_message_id)
                         THEN AppendNew(state_message_order, current_message_id)
                         ELSE state_message_order
    IN  IF order_from_messages(turn_ids) # <<>> THEN order_from_messages(turn_ids)
        ELSE message_order

\* effective_order, document_graph.py:176-196
EffectiveOrder(state_message_order, turn_ids, current_message_id) ==
    IF order_from_messages(turn_ids) # <<>> THEN order_from_messages(turn_ids)
    ELSE IF Truthy(current_message_id)
         THEN AppendNew(state_message_order, current_message_id)
         ELSE state_message_order

OrderStart == [pc |-> "inlet", served |-> 0, order |-> <<>>, local |-> <<>>,
               new_files |-> FALSE, current_message_id |-> None, turn_ids |-> <<None>>]

\* A request arrives: the graph state it starts with holds no message_order
OrderInlet ==
    /\ mo.pc = "inlet"
    /\ mo.served < MaxRequests
    /\ \E nf \in BOOLEAN, mid \in {None, "m1", "m2"}, ids \in TurnIds :
          mo' = [mo EXCEPT !.pc = "detect_new_files", !.new_files = nf,
                           !.current_message_id = mid, !.turn_ids = ids,
                           !.local = <<>>]
    /\ UNCHANGED <<pipelineVars, pd, rh, dj>>

\* _detect_new_files_node's list and the edge of _route_new_files
OrderDetectNode ==
    /\ mo.pc = "detect_new_files"
    /\ mo' = [mo EXCEPT !.local = DetectOrder(<<>>, mo.new_files, mo.current_message_id),
                        !.pc = IF mo.new_files /\ Truthy(mo.current_message_id)
                               THEN "cache_results" ELSE "update_messages"]
    /\ UNCHANGED <<pipelineVars, pd, rh, dj>>

\* _cache_results_node's list, after the extraction of the new files
OrderCacheResultsNode ==
    /\ mo.pc = "cache_results"
    /\ mo' = [mo EXCEPT !.local = CacheResultsOrder(<<>>, mo.turn_ids, mo.current_message_id),
                        !.pc = "update_messages"]
    /\ UNCHANGED <<pipelineVars, pd, rh, dj>>

\* _update_messages_node up to line 196: the order the request ends with
OrderUpdateNode ==
    /\ mo.pc = "update_messages"
    /\ mo' = [mo EXCEPT !.order = EffectiveOrder(<<>>, mo.turn_ids, mo.current_message_id),
                        !.local = <<>>,
                        !.served = @ + 1,
                        !.pc = "inlet"]
    /\ UNCHANGED <<pipelineVars, pd, rh, dj>>

InitOrder ==
    /\ _file_cache = [k \in {} |-> <<>>]
    /\ _processed_files_cache = [k \in {} |-> {}]
    /\ valves \in [USING_PADDLEOCR : {FALSE}, OPENWEBUI_API_KEY : {"key"}]
    /\ running = TRUE
    /\ req = [r \in Requests |-> NewRequest]
    /\ log = NoLog
    /\ mo = OrderStart
    /\ pd = NoCall /\ rh = NoCall /\ dj = NoCall

NextOrder ==
    \/ OrderInlet
    \/ OrderDetectNode
    \/ OrderCacheResultsNode
    \/ OrderUpdateNode

SpecOrder == InitOrder /\ [][NextOrder]_vars

---------------------------------------------------------------------------
(* The Doc2JSON pipeline, src/auxil.py: inlet (268-318) downloads the new PDFs
   of a request into temporary files and pipe (340-388) hands them to the OCR
   engine.  The requests of one session, one after the other. *)

Url(file_id) == <<"/api/v1/files/", file_id>>
TempPath(file_id) == <<"tmp", file_id>>

Doc2JsonStart == [pc |-> "inlet", served |-> 0,
                  cached_urls |-> {},      \* self._file_cache[user_id][chat_id]
                  file_list_new |-> <<>>,
                  paths |-> <<>>,          \* download_pdfs_to_temp_paths' list
                  temp_paths |-> <<>>,     \* body["_doc2json_pdf_paths"]
                  disk |-> {},             \* the temporary files that exist
                  outcome |-> None]        \* how the last pipe call ended

\* auxil.py:268-306: the new files of the request
Doc2JsonInlet ==
    /\ dj.pc = "inlet"
    /\ dj.served < MaxRequests
    /\ \E ids \in PdfLists :
         LET file_list_all == [i \in 1..Len(ids) |-> [id |-> ids[i], url |-> Url(ids[i])]]
             file_list_new == SelectSeq(file_list_all, LAMBDA f : f.url \notin dj.cached_urls)
         IN  dj' = [dj EXCEPT !.file_list_new = file_list_new,
                              !.paths = <<>>, !.temp_paths = <<>>,
                              !.pc = IF file_list_new # <<>> THEN "download" ELSE "pipe"]
    /\ UNCHANGED <<pipelineVars, pd, rh, mo>>

\* auxil.py:307-317 around one iteration of download_pdfs_to_temp_paths,
\* file_utils.py:224-263 (an await each)
Doc2JsonDownload ==
    /\ dj.pc = "download"
    /\ LET urls == {dj.file_list_new[i].url : i \in 1..Len(dj.file_list_new)}
       IN  IF ~Truthy(valves.OPENWEBUI_API_KEY)
           THEN \* returns [] (file_utils.py:243-245); the urls are added
                dj' = [dj EXCEPT !.temp_paths = <<>>, !.cached_urls = @ \cup urls,
                                 !.pc = "pipe"]
           ELSE \E ok \in BOOLEAN :
                  LET i == Len(dj.paths) + 1
                      path == TempPath(dj.file_list_new[i].id)
                      last == i = Len(dj.file_list_new)
                  IN  IF ok
                      THEN dj' = [dj EXCEPT !.paths = Append(@, path),
                                     !.disk = @ \cup {path},
                                     !.temp_paths = IF last THEN Append(dj.paths, path) ELSE @,
                                     !.cached_urls = IF last THEN @ \cup urls ELSE @,
                                     !.pc = IF last THEN "pipe" ELSE @]
                      ELSE \* file_utils.py:257-261 unlinks and raises; inlet
                           \* logs the exception (auxil.py:316-317)
                           dj' = [dj EXCEPT !.disk = @ \ SeqToSet(dj.paths),
                                     !.pc = "pipe"]
    /\ UNCHANGED <<pipelineVars, pd, rh, mo>>

\* auxil.py:346-388.  ocr is bound by the constructor's return only: when
\* PaddleOCRVL(...) raises, the finally branch's "del ocr" raises
\* UnboundLocalError and the loop that unlinks is not reached.
Doc2JsonPipe ==
    /\ dj.pc = "pipe"
    /\ IF dj.temp_paths = <<>>
       THEN dj' = [dj EXCEPT !.outcome = "no file", !.served = @ + 1, !.pc = "inlet"]
       ELSE \E constructed \in BOOLEAN, predicted \in BOOLEAN :
              IF ~constructed
              THEN dj' = [dj EXCEPT !.outcome = "UnboundLocalError",
                                    !.served = @ + 1, !.pc = "inlet"]
              ELSE dj' = [dj EXCEPT !.disk = @ \ SeqToSet(dj.temp_paths),
                                    !.outcome = IF predicted THEN "markdown" ELSE "raised",
                                    !.served = @ + 1, !.pc = "inlet"]
    /\ UNCHANGED <<pipelineVars, pd, rh, mo>>

InitDoc2Json ==
    /\ _file_cache = [k \in {} |-> <<>>]
    /\ _processed_files_cache = [k \in {} |-> {}]
    /\ valves \in [USING_PADDLEOCR : {TRUE}, OPENWEBUI_API_KEY : {"", "key"}]
    /\ running = TRUE
    /\ req = [r \in Requests |-> NewRequest]
    /\ log = NoLog
    /\ dj = Doc2JsonStart
    /\ pd = NoCall /\ rh = NoCall /\ mo = NoCall

NextDoc2Json ==
    \/ Doc2JsonInlet
    \/ Doc2JsonDownload
    \/ Doc2JsonPipe

SpecDoc2Json == InitDoc2Json /\ [][NextDoc2Json]_vars

---------------------------------------------------------------------------
(* Properties *)

\* Request r carries file_id f as a PDF of body["files"]
Carries(r, f) == \E i \in 1..Len(req[r].body.files) :
                    req[r].body.files[i].id = f /\ req[r].body.files[i].content_type = PDF

\* The messages of the body inlet returns.  The graph's last node raises before
\* it assigns body["messages"], so a body that is returned holds the messages
\* that came in.
ReturnedMessages(r) == req[r].body.messages

UserTurns(messages) == SelectSeq(messages, LAMBDA m : m.role = "user")

\* The session's artifact for f, when the cache holds one
Cached(s, f) == s \in DOMAIN _file_cache /\ HasKey(_file_cache[s], f)

\* A request that is between its reservation of f and the write of f's artifact
Extracting(r, f) ==
    /\ req[r].pc \in {"choose_processing_method", "process_with_vlm",
                      "process_with_paddleocr"}
    /\ f \in FileIdsOf(req[r].new_files)

CallEnded == {"finally", "returned"}

\* C1: a file_id submitted in two separate requests of one session is
\* dispatched to extraction exactly once and its artifact is written exactly
\* once.
C1_DedupExactlyOnce ==
    \A s \in Sessions, f \in FileIds :
        (\A r \in Requests : Finished(r) /\ req[r].session = s /\ Carries(r, f))
            => log.dispatched[<<s, f>>] = 1 /\ log.written[<<s, f>>] = 1

\* C2: an artifact cached while the k-th user turn was current is attached to
\* the k-th user turn, and to no other, by a later request that replays the
\* same history without new files: that request returns, its k-th user turn
\* is a list that holds the artifact's payload and its other user turns are
\* the plain text that came in.
C2_AnchorStableUnderReplay ==
    \A r \in Requests, s \in Sessions, f \in FileIds :
        LET w == log.writer[<<s, f>>]
        IN  (/\ running
             /\ w \in Requests \ {r}
             /\ Finished(r) /\ req[r].session = s
             /\ req[r].cached_at_inlet >= 1
             /\ req[r].new_files = <<>>
             /\ req[r].body.messages = req[w].body.messages
             /\ Cached(s, f) /\ DictGet(_file_cache[s], f).images # <<>>)
            => LET out == UserTurns(ReturnedMessages(r))
                   k == Len(UserTurns(req[w].body.messages))
               IN  /\ Returned(r)
                   /\ \A j \in 1..Len(out) :
                        IF j = k
                        THEN /\ out[j].content.kind = "list"
                             /\ \E i \in 1..Len(out[j].content.items) :
                                  out[j].content.items[i] \in
                                    {ImageItem(im) : im \in SeqToSet(
                                        DictGet(_file_cache[s], f).images)}
                        ELSE out[j].content = StrContent(<<"t">>)

\* C3: when the primary method raises for a batch, the page-image method runs
\* once for the whole batch and every file of the batch then has an artifact
\* of kind rendered_images; without a raise it does not run; no batch ends
\* with artifacts of both kinds.
C3_FallbackWholeBatchOnce ==
    /\ pd.fallback_calls = (IF pd.primary_raised /\ pd.pc \in CallEnded THEN 1 ELSE 0)
    /\ (pd.primary_raised /\ pd.pc \in CallEnded)
          => \A f \in FileIdsOf(pd.new_files) :
                /\ HasKey(pd.file_cache_session, f)
                /\ Kind(DictGet(pd.file_cache_session, f)) = "rendered_images"
    /\ pd.pc \in CallEnded
          => \A i, j \in 1..Len(pd.file_cache_session) :
                Kind(pd.file_cache_session[i]) = Kind(pd.file_cache_session[j])

\* C3 witness: the primary method wrote document text for a file of the batch,
\* raised for a later one, and the call has ended.
C3_Witness ==
    /\ pd.pc = "returned"
    /\ pd.primary_raised
    /\ pd.ocr_writes >= 1
    /\ Len(pd.new_files) >= 2

\* C4: when one file's download fails in a batch, every other file of the batch
\* has an artifact, the failed file has no cache entry, and the request does
\* not raise.
C4_PartialFailureIsolated ==
    \A r \in Requests :
        (running /\ Cardinality(req[r].failed) = 1)
            => /\ \A f \in FileIdsOf(req[r].new_files) :
                    Cached(req[r].session, f) <=> f \notin req[r].failed
               /\ ~Raised(r)

\* C5: a file_id whose extraction failed or was never dispatched is new again
\* for a later request of the session: when an ended request reserved f and the
\* cache holds no artifact for f, the detection step of another request that
\* carries f puts f in its new files.
C5_FailedReservationReleased ==
    [][\A r \in Requests, f \in FileIds :
          (/\ req[r].pc = "detect_new_files"
           /\ req'[r].pc # "detect_new_files"
           /\ Carries(r, f)
           /\ ~Cached(req[r].session, f)
           /\ \E r0 \in Requests \ {r} :
                /\ Finished(r0)
                /\ req[r0].session = req[r].session
                /\ f \in FileIdsOf(req[r0].new_files))
          => f \in FileIdsOf(req'[r].new_files)]_vars

\* C6: before shutdown no step removes an artifact: a file_id that has an
\* entry in a session's cache has one after every step that leaves the
\* pipeline running.
C6_ArtifactNeverLost ==
    [][running' =>
          \A s \in DOMAIN _file_cache : \A f \in DictKeys(_file_cache[s]) :
              s \in DOMAIN _file_cache' /\ HasKey(_file_cache'[s], f)]_vars

\* C6 witness: a request of the session arrived when the cache held an
\* artifact, ran to its end, and the artifact is there.
C6_Witness ==
    \E r \in Requests :
        /\ running /\ Finished(r)
        /\ req[r].cached_at_inlet >= 1
        /\ req[r].session \in DOMAIN _file_cache
        /\ Len(_file_cache[req[r].session]) >= req[r].cached_at_inlet

\* C7: of the overlapping requests of a session at most one has a given
\* file_id in its new files, and the file_id is dispatched at most once.
C7_AtMostOneInFlight ==
    \A s \in Sessions, f \in FileIds :
        /\ Cardinality({r \in Requests : /\ InFlight(r) /\ req[r].session = s
                                         /\ f \in FileIdsOf(req[r].new_files)}) <= 1
        /\ log.dispatched[<<s, f>>] <= 1

\* C7 witness: two requests of a session overlap, both carry f, one of them is
\* extracting it and the detection step of the other has passed it over.
C7_Witness ==
    \E r1, r2 \in Requests, f \in FileIds :
        /\ r1 # r2
        /\ req[r1].session = req[r2].session
        /\ Carries(r1, f) /\ Carries(r2, f)
        /\ Extracting(r1, f)
        /\ req[r2].pc = "update_messages"
        /\ f \notin FileIdsOf(req[r2].new_files)

\* C8: overlapping requests of a session are serialized: a request that
\* carries a file_id reserved by an overlapping request does not reach the
\* rehydration of its messages while that request is still extracting the
\* file, that is, before the artifact is in the cache.
C8_SerializedPerSession ==
    \A r, r2 \in Requests, f \in FileIds :
        (/\ r # r2
         /\ req[r].session = req[r2].session
         /\ req[r].pc = "update_messages"
         /\ Carries(r, f)
         /\ Extracting(r2, f))
            => Cached(req[r].session, f)

\* C10: a request with one user turn of text t and one new file, extracted by
\* the document-text method, returns that turn as [t, one document block]; and
\* a following request of the session that replays the history with no files
\* returns the same messages.
C10_OneTurnOneFile ==
    \A r \in Requests :
        (/\ Finished(r)
         /\ Len(UserTurns(req[r].body.messages)) = 1
         /\ Len(req[r].new_files) = 1
         /\ req[r].use_paddle_ocr)
            => /\ Returned(r)
               /\ LET c == UserTurns(ReturnedMessages(r))[1].content
                  IN  /\ c.kind = "list"
                      /\ Len(c.items) = 2
                      /\ c.items[1] = TextItem(<<"t">>)
                      /\ c.items[2].type = "text"
               /\ \A r2 \in Requests \ {r} :
                    (/\ Finished(r2)
                     /\ req[r2].session = req[r].session
                     /\ req[r2].body.files = <<>>
                     /\ req[r2].body.messages = req[r].body.messages)
                        => Returned(r2) /\ ReturnedMessages(r2) = ReturnedMessages(r)

\* C11: no failure of a collaborator leaves the dispatcher as an exception: a
\* request in which a download or a rendering failed still ends by returning
\* its messages.
C11_CollaboratorFailureContained ==
    \A r \in Requests : (Finished(r) /\ req[r].failed # {}) => Returned(r)

\* The step in which request r runs its detection node
DetectStep(r) == req[r].pc = "detect_new_files" /\ req'[r].pc # "detect_new_files"

\* C15: the detector returns exactly the attached PDFs whose file_id the
\* session had not registered, each once, and registers exactly those: a file
\* of another content type is neither returned nor registered.
C15_DetectorExact ==
    [][\A r \in Requests :
          DetectStep(r) =>
            LET s == req[r].session
                fresh == {f \in FileIds : Carries(r, f) /\ f \notin _processed_files_cache[s]}
            IN  /\ FileIdsOf(req'[r].new_files) = fresh
                /\ Len(req'[r].new_files) = Cardinality(fresh)
                /\ _processed_files_cache'[s] = _processed_files_cache[s] \cup fresh]_vars

\* C15 witness: detection has run for a request that attached an image whose
\* id the session has not registered, and for a request with a new PDF.
C15_Witness ==
    /\ running
    /\ \E r \in Requests :
         /\ req[r].session \in Sessions
         /\ req[r].pc = "update_messages"
         /\ \E i \in 1..Len(req[r].body.files) :
              /\ req[r].body.files[i].content_type # PDF
              /\ Truthy(req[r].body.files[i].id)
              /\ req[r].body.files[i].id \notin _processed_files_cache[req[r].session]
    /\ \E r \in Requests : req[r].new_files # <<>>

\* C16: a file without file_id is dropped by the detector: no reserved list,
\* no registry and no cache ever holds an absent id.
C16_NoIdNeverKept ==
    /\ \A r \in Requests : \A i \in 1..Len(req[r].new_files) :
          Truthy(req[r].new_files[i].id)
    /\ \A s \in DOMAIN _processed_files_cache :
          \A x \in _processed_files_cache[s] : Truthy(x)
    /\ \A s \in DOMAIN _file_cache : \A x \in DictKeys(_file_cache[s]) : Truthy(x)

\* C16 witness: a request that attached a PDF without file_id, with a message
\* id and no reason to skip, has passed detection and ended; a later request of
\* the session has ended too.
C16_Witness ==
    \E r, r2 \in Requests :
        /\ r # r2 /\ running
        /\ Finished(r) /\ Finished(r2)
        /\ req[r].session \in Sessions /\ req[r2].session = req[r].session
        /\ ~req[r].skip_processing
        /\ Truthy(req[r].body.message_id)
        /\ \E i \in 1..Len(req[r].body.files) :
              /\ req[r].body.files[i].content_type = PDF
              /\ ~Truthy(req[r].body.files[i].id)

\* C17: every file_id a request's detection reserves is dispatched to
\* extraction in that request: when the request has ended, each id of its new
\* files has been handed to an extraction method.
C17_ReservedIsDispatched ==
    \A r \in Requests :
        Finished(r) =>
            \A f \in FileIdsOf(req[r].new_files) :
                log.dispatched[<<req[r].session, f>>] >= 1

\* The position among user turns of the i-th message of a history
UserIndexOf(messages, i) == Len(UserTurns(SubSeq(messages, 1, i - 1)))

\* C12: the rehydrator never raises, whatever entries the cache writers left
\* and whatever history is replayed.
C12_RehydratorNeverRaises == rh.pc # "raised"

\* C13: the rehydrator leaves its arguments as they were: the message list,
\* each message and its content, and the cache are the same after the call.
C13_InputsNotMutated ==
    [][rh.pc = "call" => rh'.messages = rh.messages /\ rh'.file_cache = rh.file_cache]_vars

\* C13 witness: a call has returned messages that differ from the ones it was
\* given, with an artifact of the cache attached to a turn.
C13_Witness ==
    /\ rh.pc = "returned"
    /\ rh.updated_messages # rh.messages
    /\ \E i \in 1..Len(rh.messages) :
          /\ rh.messages[i].role = "user"
          /\ FilesByIndex(rh.file_cache, UserIndexOf(rh.messages, i)) # <<>>

\* C19: every message that is not a user message passes through unchanged and
\* in place: the output has as many messages as the input, with the same roles
\* in the same order, and each non-user message equals its input.
C19_NonUserPassThrough ==
    rh.pc = "returned" =>
        /\ Len(rh.updated_messages) = Len(rh.messages)
        /\ \A i \in 1..Len(rh.messages) :
              /\ rh.updated_messages[i].role = rh.messages[i].role
              /\ rh.messages[i].role # "user" => rh.updated_messages[i] = rh.messages[i]

\* C19 witness: a call on a history with an assistant message between two user
\* turns has returned, and it changed a user turn.
C19_Witness ==
    /\ rh.pc = "returned"
    /\ Len(rh.messages) >= 3
    /\ rh.messages[2].role = "assistant"
    /\ rh.updated_messages[1] # rh.messages[1]

\* C20: a user turn that has no cached artifact and no image still carries a
\* text-only label: its content holds a text item besides the user's own text.
C20_TextOnlyLabeled ==
    rh.pc = "returned" =>
        \A i \in 1..Len(rh.messages) :
            (/\ rh.messages[i].role = "user"
             /\ FilesByIndex(rh.file_cache, UserIndexOf(rh.messages, i)) = <<>>
             /\ ExistingImages(rh.messages[i].content) = <<>>)
                => \E j \in 1..Len(rh.updated_messages[i].content.items) :
                      LET item == rh.updated_messages[i].content.items[j]
                      IN  item.type = "text" /\ item.text # UserText(rh.messages[i].content)

\* C14: the turn order of a session is never silently truncated: across a
\* request its length does not decrease, or it is replaced by the ids of the
\* host's messages, and then every user turn carries an id.
C14_OrderNeverTruncated ==
    [][(mo.pc = "update_messages" /\ mo'.pc = "inlet") =>
          \/ Len(mo'.order) >= Len(mo.order)
          \/ /\ \A i \in 1..Len(mo.turn_ids) : Truthy(mo.turn_ids[i])
             /\ mo'.order = mo.turn_ids]_vars

RenderedMaps(new_files) ==
    {process_pdf_to_base64_images(new_files, "key", outcome) :
        outcome \in [FileIdsOf(new_files) -> DownloadOutcomes]}

\* C21: when the primary method fails for a batch and the page-image method
\* renders none of its files, the cache holds no entry for any file of the
\* batch once the call has ended: what the primary method wrote is discarded
\* and nothing is written in its place.
C21_BothFailNoArtifact ==
    (/\ pd.pc \in CallEnded
     /\ pd.primary_raised
     /\ pd.fallback_calls = 1
     /\ pd.fallback_rendered = {})
        => \A f \in FileIdsOf(pd.new_files) : ~HasKey(pd.file_cache_session, f)

\* C22: no artifact of a batch is in the session cache before extraction has
\* finished for every file of the batch: while the call is downloading,
\* predicting or waiting for the page-image method, the cache another request
\* of the session reads holds nothing of the batch.
C22_NoWriteBeforeBatchDone ==
    pd.pc \in {"download", "ocr", "fallback"} => pd.file_cache_session = <<>>

\* C23: every artifact of a batch carries the anchor of the call's current
\* turn, the message id and the index of the user turn, whichever of the two
\* methods wrote it; and every entry _process_vlm_node writes carries the
\* message id of its request's turn.
C23_ArtifactsCarryAnchor ==
    /\ \A i \in 1..Len(pd.file_cache_session) :
          LET e == pd.file_cache_session[i]
          IN  /\ {"message_id", "user_msg_index"} \subseteq e.keys
              /\ e.message_id = pd.current_message_id
              /\ e.user_msg_index = pd.current_user_msg_index
    /\ \A nf \in NewFileLists, mid \in {"m1", "m2"} : \A fi \in RenderedMaps(nf) :
          \A i \in 1..Len(nf) :
              LET e == VlmEntries(nf, mid, fi)[i]
              IN  "message_id" \in e.keys /\ e.message_id = mid

\* C23 witness: both methods wrote for one batch of two files: the primary
\* method cached a file, raised for the next, and the page-image method has
\* written the batch.
C23_Witness ==
    /\ pd.pc = "finally"
    /\ pd.ocr_writes >= 1
    /\ pd.fallback_calls = 1
    /\ Len(pd.file_cache_session) = 2
    /\ pd.current_user_msg_index = 1

\* An entry of exactly one kind: it has one of the keys "ocr_markdown" and
\* "images", and nothing of the other kind
OneKind(e) ==
    /\ ("ocr_markdown" \in e.keys) # ("images" \in e.keys)
    /\ "ocr_markdown" \notin e.keys => ~Truthy(e.ocr_markdown)
    /\ "images" \notin e.keys => e.images = <<>>

\* C24: every cached artifact has exactly one kind, document text or rendered
\* images; a write of the other kind for the same file_id replaces the entry
\* whole.
C24_ExactlyOneKind ==
    /\ \A i \in 1..Len(pd.file_cache_session) : OneKind(pd.file_cache_session[i])
    /\ \A nf \in NewFileLists : \A fi \in RenderedMaps(nf) :
          \A i \in 1..Len(nf) : OneKind(VlmEntries(nf, "m1", fi)[i])

\* C24 witness: the primary method cached document text for a file and the
\* page-image method then wrote the file's rendered pages over it.
C24_Witness ==
    /\ pd.pc = "returned"
    /\ pd.ocr_writes >= 1
    /\ \E i \in 1..Len(pd.file_cache_session) :
          /\ pd.file_cache_session[i].file_id = pd.new_files[1].id
          /\ pd.file_cache_session[i].images # <<>>

IsPrefix(s, t) == Len(s) <= Len(t) /\ SubSeq(t, 1, Len(s)) = s

\* The step that ends a request of the session, for a history whose user
\* turns carry no id
OrderRequestEndsWithoutIds ==
    /\ mo.pc = "update_messages" /\ mo'.pc = "inlet"
    /\ order_from_messages(mo.turn_ids) = <<>>

\* C25: when the host's messages carry no ids, no anchor is reordered or
\* removed: the turn order a request leaves has the turn order it found as a
\* prefix, from one request of the session to the next.
C25_OrderKeepsPrefix ==
    [][OrderRequestEndsWithoutIds => IsPrefix(mo.order, mo'.order)]_vars

\* C26: when the host's messages carry no ids, a request appends its turn's
\* anchor to the turn order exactly when the turn brought new files and the
\* anchor is not in the order yet; a request without new files leaves the
\* order as it was.
C26_AppendOnlyWithNewFiles ==
    [][(OrderRequestEndsWithoutIds /\ Truthy(mo.current_message_id)) =>
          mo'.order = IF mo.new_files /\ mo.current_message_id \notin SeqToSet(mo.order)
                      THEN Append(mo.order, mo.current_message_id)
                      ELSE mo.order]_vars

\* The content items the call returned for the i-th message, and the entries
\* the code collects for it
OutItems(i) == rh.updated_messages[i].content.items
TurnFiles(i) == FilesByIndex(rh.file_cache, UserIndexOf(rh.messages, i))
UserPositions == {i \in 1..Len(rh.messages) : rh.messages[i].role = "user"}

\* The entries of a turn by the precedence of src/old_variant.py:387-394: the
\* message's own id when it has one, its position among user turns otherwise
FilesForAnchor(file_cache, msg, position) ==
    IF Truthy(msg.id) THEN SelectSeq(file_cache, LAMBDA e : e.message_id = msg.id)
    ELSE SelectSeq(file_cache, LAMBDA e : e.user_msg_index = position)

\* C27: in rehydration a user turn's anchor is its explicit id when the
\* message carries one and its position among user turns only when it carries
\* none: the turn is rendered with the artifacts that anchor selects.
C27_AnchorIdBeforePosition ==
    rh.pc = "returned" =>
        \A i \in UserPositions :
            OutItems(i) = NewContent(rh.messages[i].content,
                              FilesForAnchor(rh.file_cache, rh.messages[i],
                                             UserIndexOf(rh.messages, i)))

\* The free text of a message as the rehydrator renders it first
TextBlock(content) ==
    IF UserText(content) # <<>> THEN <<TextItem(UserText(content))>> ELSE <<>>

\* A block that renders a cached artifact: a text that starts with the file
\* name label, or a page of one of the turn's files
ArtifactBlock(item, files) ==
    IF item.type = "text" THEN item.text # <<>> /\ Head(item.text) = LABEL
    ELSE \E k \in 1..Len(files) : item \in SeqToSet(ImageBlocksOf(files[k].images))

\* C28: in every rehydrated user turn the content is the original free text
\* (only if non-empty), then the blocks of the cached artifacts, then the
\* message's own inline images, each equal to the original item and in the
\* original order.
C28_ContentOrder ==
    rh.pc = "returned" =>
        \A i \in UserPositions :
            LET items == OutItems(i)
                T == TextBlock(rh.messages[i].content)
                E == ExistingImages(rh.messages[i].content)
            IN  /\ Len(items) >= Len(T) + Len(E)
                /\ SubSeq(items, 1, Len(T)) = T
                /\ SubSeq(items, Len(items) - Len(E) + 1, Len(items)) = E
                /\ \A j \in (Len(T) + 1)..(Len(items) - Len(E)) :
                      ArtifactBlock(items[j], TurnFiles(i))

\* C28 witness: a returned turn that had free text and an inline image of its
\* own and got the pages of a cached file.
C28_Witness ==
    /\ rh.pc = "returned"
    /\ \E i \in UserPositions :
          /\ TextBlock(rh.messages[i].content) # <<>>
          /\ ExistingImages(rh.messages[i].content) # <<>>
          /\ \E k \in 1..Len(TurnFiles(i)) : TurnFiles(i)[k].images # <<>>
          /\ Len(OutItems(i)) >= 4

LabelItem(filename) == TextItem(<<LABEL, SP, filename>>)

\* The blocks of the pages start at position j of the items
ImagesAt(items, j, images) ==
    /\ j >= 1 /\ j + Len(images) - 1 <= Len(items)
    /\ SubSeq(items, j, j + Len(images) - 1) = ImageBlocksOf(images)

\* A text item holds a document block headed by the file name
NamedInDocBlock(items, filename) ==
    \E j \in 1..Len(items) :
        /\ items[j].type = "text"
        /\ \E k \in 1..(Len(items[j].text) - 4) :
              SubSeq(items[j].text, k, k + 4) = <<LABEL, SP, filename, NL, NL>>

\* An entry the page-image fallback wrote with n >= 1 pages
Rendered(e) == "images" \in e.keys /\ e.images # <<>>

\* The pages of e are in the items exactly once each
PagesOnce(items, e) ==
    Cardinality({j \in 1..Len(items) : items[j] \in SeqToSet(ImageBlocksOf(e.images))})
        = Len(e.images)

NamesInTurnText(content) ==
    IF content.kind = "str" THEN ExistingFileNames(content.text)
    ELSE RecordedNames(content)

\* The file names of the turn's document block
DocBlockNames(files) ==
    {<<files[k].filename>> : k \in {n \in 1..Len(files) : Truthy(files[n].ocr_markdown)}}

\* C30: in a rehydrated user turn the label item of a file name is emitted at
\* most once, and not at all when the turn's incoming text already records the
\* name or the turn's document block names it.
C30_LabelAtMostOnce ==
    rh.pc = "returned" =>
        \A i \in UserPositions : \A f \in FileIds :
            LET items == OutItems(i)
                labels == {j \in 1..Len(items) : items[j] = LabelItem(FileName[f])}
            IN  /\ Cardinality(labels) <= 1
                /\ (<<FileName[f]>> \in NamesInTurnText(rh.messages[i].content)
                                       \cup DocBlockNames(TurnFiles(i)))
                      => labels = {}

\* C31: a request that enters the graph runs its steps in the order detection,
\* extraction, turn order, rehydration: it enters the rehydration node exactly
\* once, with or without new files, and nothing of the request runs after it.
C31_RehydrationOncePerRequest ==
    \A r \in Requests :
        /\ (Finished(r) /\ req[r].session \in Sessions) => req[r].update_messages_runs = 1
        /\ req[r].update_messages_runs >= 1 => Finished(r)

\* C32: when the OCR engine is not configured it is never invoked: no request
\* is routed to it, every dispatch is the page renderer's and every artifact
\* in a cache has kind rendered_images.
C32_RendererOnlyWithoutEngine ==
    ~valves.USING_PADDLEOCR =>
        /\ \A r \in Requests :
              req[r].pc # "process_with_paddleocr" /\ ~req[r].use_paddle_ocr
        /\ \A s \in DOMAIN _file_cache : \A i \in 1..Len(_file_cache[s]) :
              Kind(_file_cache[s][i]) = "rendered_images"
        /\ \A k \in DOMAIN log.dispatched : log.dispatched[k] = log.written[k]

\* C32 witness: with the engine not configured, a batch of two files has been
\* rendered and cached.
C32_Witness ==
    /\ running /\ ~valves.USING_PADDLEOCR
    /\ \E r \in Requests :
          /\ req[r].pc = "cache_results"
          /\ Len(req[r].new_files) = 2
          /\ \A f \in FileIdsOf(req[r].new_files) :
                /\ Cached(req[r].session, f)
                /\ DictGet(_file_cache[req[r].session], f).images # <<>>

\* C33: sessions are isolated: a step of a request leaves the registry and the
\* cache of every session but its own as they were, and whether a file_id is
\* new for a request depends on its own session's registry only, so a file_id
\* sent in two sessions is new in each.
C33_SessionsIsolated ==
    [][\A r \in Requests :
          (req'[r] # req[r]) =>
            /\ \A s \in DOMAIN _file_cache \ {req'[r].session} :
                  s \in DOMAIN _file_cache' /\ _file_cache'[s] = _file_cache[s]
            /\ \A s \in DOMAIN _processed_files_cache \ {req'[r].session} :
                  /\ s \in DOMAIN _processed_files_cache'
                  /\ _processed_files_cache'[s] = _processed_files_cache[s]
            /\ DetectStep(r) =>
                  \A f \in FileIds :
                      (Carries(r, f) /\ f \notin _processed_files_cache[req[r].session])
                          => f \in FileIdsOf(req'[r].new_files)]_vars

\* C33 witness: the same file_id has been extracted and cached in two
\* sessions.
C33_Witness ==
    /\ running
    /\ \E r1, r2 \in Requests, f \in FileIds :
          /\ req[r1].session \in Sessions /\ req[r2].session \in Sessions
          /\ req[r1].session # req[r2].session
          /\ f \in FileIdsOf(req[r1].new_files) /\ f \in FileIdsOf(req[r2].new_files)
          /\ Cached(req[r1].session, f) /\ Cached(req[r2].session, f)

\* C34: in every state every file_id that has an artifact in a session's
\* cache is in the session's registry of processed file_ids.
C34_CachedIsRegistered ==
    \A s \in DOMAIN _file_cache :
        /\ s \in DOMAIN _processed_files_cache
        /\ DictKeys(_file_cache[s]) \subseteq _processed_files_cache[s]

\* C34 witness: a session's cache holds the artifacts of two files while a
\* later request of the session, which carried one of them, has ended.
C34_Witness ==
    /\ running
    /\ \E s \in DOMAIN _file_cache, r \in Requests :
          /\ Len(_file_cache[s]) = 2
          /\ req[r].session = s /\ Finished(r)
          /\ req[r].new_files = <<>> /\ req[r].body.files # <<>>

\* The step in which inlet returns the body for want of a user id or a chat id
\* (pipeline.py:185-187), or a step of a request that _validate_input_node has
\* marked for the same reason (document_graph.py:28-30)
MissingIdStep(r) ==
    /\ req'[r] # req[r]
    /\ \/ req[r].pc = "new" /\ req'[r].session \notin Sessions
       \/ req[r].skip_processing

\* C35: a request without a user id or without a chat id changes no session
\* state in any of its steps (no session is created, no file_id registered, no
\* artifact written) and ends by returning its body.
C35_MissingIdChangesNothing ==
    [][\A r \in Requests :
          MissingIdStep(r) =>
            /\ _file_cache' = _file_cache
            /\ _processed_files_cache' = _processed_files_cache
            /\ ~Raised(r)']_vars

\* C37: the reserved list of a request never holds a file_id twice, also when
\* the request's file list names a new file_id more than once.
C37_ReservedOnce ==
    \A r \in Requests : \A i, j \in 1..Len(req[r].new_files) :
        i # j => req[r].new_files[i].id # req[r].new_files[j].id

\* C37 witness: a request whose file list names a new PDF twice has passed
\* detection with the file in its reserved list.
C37_Witness ==
    \E r \in Requests, f \in FileIds :
        /\ Cardinality({i \in 1..Len(req[r].body.files) :
                           req[r].body.files[i].id = f
                           /\ req[r].body.files[i].content_type = PDF}) >= 2
        /\ f \in FileIdsOf(req[r].new_files)

\* The items hold content of the entry: one of its pages, or a text with its
\* markdown
RendersEntry(items, e) ==
    \/ \E j \in 1..Len(items) : items[j] \in SeqToSet(ImageBlocksOf(e.images))
    \/ /\ Truthy(e.ocr_markdown)
       /\ \E j \in 1..Len(items) :
             items[j].type = "text" /\ Contains(items[j].text, e.ocr_markdown)

\* C36: each cached artifact is rendered in at most one user turn of a
\* rehydrated history: no artifact's content is in two turns of one output.
C36_ArtifactInOneTurn ==
    rh.pc = "returned" =>
        \A k \in 1..Len(rh.file_cache) :
            Cardinality({i \in UserPositions :
                           RendersEntry(OutItems(i), rh.file_cache[k])}) <= 1

\* C36 witness: a history of two user turns has been returned with the
\* artifact of the second turn rendered in it and the artifact of the first
\* in the first.
C36_Witness ==
    /\ rh.pc = "returned"
    /\ Len(rh.messages) = 3 /\ Len(rh.file_cache) = 2
    /\ rh.file_cache[1].user_msg_index = 0 /\ rh.file_cache[2].user_msg_index = 1
    /\ RendersEntry(OutItems(1), rh.file_cache[1])
    /\ RendersEntry(OutItems(3), rh.file_cache[2])

\* C38: in the Doc2JSON inlet the urls of a batch of new files enter the
\* session's seen-set only after every file of the batch has been downloaded;
\* when a download fails the seen-set stays as it was and the request carries
\* no temp paths, so the files are new again for the next request.
C38_SeenOnlyAfterDownloaded ==
    [][dj.pc = "download" =>
          /\ dj'.cached_urls # dj.cached_urls
                => Len(dj'.temp_paths) = Len(dj.file_list_new)
          /\ (dj'.pc = "pipe" /\ Len(dj'.temp_paths) < Len(dj.file_list_new))
                => dj'.cached_urls = dj.cached_urls /\ dj'.temp_paths = <<>>]_vars

====
